---- MODULE Spec2Model ----
(***************************************************************************)
(* Model of the parallax GIF generator: the k-means palette extractor      *)
(* (src/src/graphics/color.rs), the palette-constrained frame encoder      *)
(* (src/src/graphics/gif.rs) and the capture loop                          *)
(* (src/src/state/event_loop.rs).                                          *)
(*                                                                         *)
(* Four specifications share the variables of the module:                  *)
(*   SpecKMeans  one run of PaletteExtractor::kmeans_clustering, one loop  *)
(*               pass per step, on a bounded pixel sequence;               *)
(*   Spec        one run of start_event_loop, one loop iteration per step, *)
(*               started with the palette state extract_palette built (or  *)
(*               without one);                                             *)
(*   SpecScene   one run of main: the layer slicer, the loading of the     *)
(*               layers and the compositor, one loop iteration per step,   *)
(*               on a canvas scaled down from 1024x1024;                   *)
(*   SpecText    one application of a function (color packing and          *)
(*               unpacking, the TextProcessor functions, the stamp         *)
(*               position of a layer) to a bounded input.                  *)
(***************************************************************************)
EXTENDS Integers, Sequences, FiniteSets, TLC

VARIABLES
    \* ---- PaletteExtractor::kmeans_clustering
    km_pc,              \* "start" | "loop" | "tail" | "done" | "panic" | "off"
    pixels,             \* the pixel sequence (Vec<Color>)
    num_colors,         \* self.num_colors
    max_iterations,     \* self.max_iterations
    centroids,          \* Vec<Color>
    assignments,        \* Vec<usize>, 0-based cluster per pixel
    iteration,          \* number of loop passes run so far
    changed,            \* the `changed` flag of the last pass
    km_result,          \* the returned palette
    \* ---- start_event_loop and the encoder
    pc,                 \* "Running" | "Done" | "Exit1" | "Cancelled" | "Panicked" | "off"
    headless,           \* the headless argument
    sprites,            \* state.sprites, the layers the scenes are painted from
    frame_count,        \* frame_count
    camera_x,           \* state.camera.x
    window_buffer,      \* state.window_buffer, packed u32 pixels
    color_map,          \* state.color_map: Option<Vec<u8>>
    color_to_index_map, \* state.color_to_index_map: Option<HashMap<u32, u8>>
    gif_frames,         \* number of frames written to gifs/gif_<date>.gif
    gif_buffer,         \* index buffer handed to the last write_frame call
    gif_palette,        \* palette bytes handed to the last write_frame call
    finalize_calls,     \* number of calls of finalize_gif_encoding
    \* ---- main, create_parallax_layers and update_pixel_buffer
    sc_pc,              \* "main" | "sliced" | "Running" | "Done" | "Panicked" | "off"
    source,             \* the decoded images/image_current.png
    layer_files,        \* layers/<i>/layer_<date>.png, i = 1..4: Option<image>
    slicer_result,      \* "none" | "ok" | "dimension" | "io"
    layers,             \* sprites.layer_1[0] .. sprites.layer_4[0]
    canvas,             \* window_buffer of the run, one pixel <<rgb, alpha>> each
    written,            \* canvas indices written by the last update_pixel_buffer
    stamped,            \* the draw_sprite calls of the last update_pixel_buffer
    sc_camera_x,        \* camera.x of the run
    sc_frames,          \* frames handed to process_frame in the run
    \* ---- conversions
    tx_pc,              \* "color" | "packed" | "unpacked" | "text" | "ascii" |
                        \* "sentence" | "trimmed" | "view" | "stamped" | "off"
    tx_color,           \* a Color {r, g, b}
    tx_packed,          \* the packed u32
    tx_rgb,             \* the (u8, u8, u8) unpacked from it
    tx_text,            \* the input text, a sequence of code points
    tx_out,             \* the output text
    tx_view,            \* camera.x, a layer divisor, art_width and window_width
    tx_stamp            \* offset_x and the position handed to draw_sprite

kmVars == <<km_pc, pixels, num_colors, max_iterations, centroids, assignments,
            iteration, changed, km_result>>
loopVars == <<pc, headless, sprites, frame_count, camera_x, window_buffer, color_map,
              color_to_index_map, gif_frames, gif_buffer, gif_palette, finalize_calls>>
sceneVars == <<sc_pc, source, layer_files, slicer_result, layers, canvas, written,
               stamped, sc_camera_x, sc_frames>>
textVars == <<tx_pc, tx_color, tx_packed, tx_rgb, tx_text, tx_out, tx_view, tx_stamp>>
vars == <<kmVars, loopVars, sceneVars, textVars>>

(***************************************************************************)
(* Bounds of the model.                                                    *)
(***************************************************************************)
MaxPixels == 4          \* longest pixel sequence given to kmeans_clustering
MaxK == 3               \* largest num_colors given to kmeans_clustering
MaxCap == 2             \* small iteration caps 0..MaxCap, beside the cap of 50
PaletteK == 2           \* num_colors of extract_palette, scaled down from 256
MaxImagePixels == 3     \* longest source image given to extract_palette
ScrollPixels == 21      \* pixels of the scrolling part of the canvas
MaxSpeed == 10          \* fastest scroll, in ramp colors per camera step
MaxTextLen == 4         \* longest text given to enforce_ascii
MaxSentenceLen == 5     \* longest text given to remove_incomplete_last_sentence
MaxCameraX == 130       \* largest camera.x given to draw_parallax_layer

(***************************************************************************)
(* Program constants.                                                      *)
(***************************************************************************)
MAX_GIF_FRAMES == 40
EXTRACT_MAX_ITERATIONS == 50
SETTLE_FLOOR == 5
U8_MAX == 255
CAMERA_STEP == 5
CAMERA_X_INCREMENT == 20

\* Option<T>
None == [some |-> FALSE]
Some(v) == [some |-> TRUE, v |-> v]

Min2(a, b) == IF a < b THEN a ELSE b

(***************************************************************************)
(* Color                                                                   *)
(***************************************************************************)
\* Color { r, g, b } is the triple <<r, g, b>>.
\* distance_to returns sqrt(dr*dr + dg*dg + db*db) as f64.  The sum is an
\* integer below 2^18, on which the f64 square root is strictly increasing, so
\* every comparison of two distances is the comparison of the two sums: the
\* model keeps the sum.
distance_to(c1, c2) ==
    LET dr == c1[1] - c2[1]
        dg == c1[2] - c2[2]
        db == c1[3] - c2[3]
    IN  dr * dr + dg * dg + db * db

\* f64::INFINITY: above every distance of two 8-bit colors.
INFINITY == 3 * 255 * 255 + 1

(***************************************************************************)
(* PaletteExtractor::initialize_centroids                                  *)
(***************************************************************************)
\* while used_indices.contains(&fallback_idx) && fallback_idx < pixels.len() - 1
RECURSIVE NextFree(_, _, _)
NextFree(fallback_idx, used_indices, n) ==
    IF fallback_idx \in used_indices /\ fallback_idx < n - 1
    THEN NextFree(fallback_idx + 1, used_indices, n)
    ELSE fallback_idx

\* for i in 0..self.num_colors: one centroid pushed per i (indices 0-based).
RECURSIVE StrideCentroids(_, _, _, _, _)
StrideCentroids(px, K, i, cs, used_indices) ==
    IF i >= K THEN [cs |-> cs, used |-> used_indices]
    ELSE LET n == Len(px)
             step == n \div K
             idx == Min2(i * step, n - 1)
             pick == IF idx \notin used_indices THEN idx
                     ELSE NextFree(idx, used_indices, n)
         IN  StrideCentroids(px, K, i + 1, Append(cs, px[pick + 1]),
                             used_indices \cup {pick})

\* while centroids.len() < self.num_colors: push the first unused pixel.  The
\* for loop above has pushed num_colors centroids, so the body never runs.
RECURSIVE FillCentroids(_, _, _, _)
FillCentroids(px, K, cs, used_indices) ==
    LET free == {i \in 0..(Len(px) - 1) : i \notin used_indices}
    IN  IF Len(cs) >= K \/ free = {} THEN cs
        ELSE LET i == CHOOSE f \in free : \A g \in free : f <= g
             IN  FillCentroids(px, K, Append(cs, px[i + 1]), used_indices \cup {i})

initialize_centroids(px, K) ==
    IF Len(px) <= K THEN px
    ELSE LET s == StrideCentroids(px, K, 0, <<>>, {})
         IN  FillCentroids(px, K, s.cs, s.used)

(***************************************************************************)
(* One pass of the loop of PaletteExtractor::kmeans_clustering             *)
(***************************************************************************)
\* for (j, centroid) in centroids.iter().enumerate():
\*     if distance < min_distance { min_distance = distance; best_centroid = j }
RECURSIVE NearestFrom(_, _, _, _, _)
NearestFrom(pixel, cs, j, min_distance, best) ==
    IF j >= Len(cs) THEN best
    ELSE LET distance == distance_to(pixel, cs[j + 1])
         IN  IF distance < min_distance
             THEN NearestFrom(pixel, cs, j + 1, distance, j)
             ELSE NearestFrom(pixel, cs, j + 1, min_distance, best)

best_centroid(pixel, cs) == NearestFrom(pixel, cs, 0, INFINITY, 0)

\* The assignment step: assignments[i] = best_centroid for every pixel.
AssignPixels(px, cs) == [i \in 1..Len(px) |-> best_centroid(px[i], cs)]

\* counts[k]
ClusterCount(asg, k) == Cardinality({i \in DOMAIN asg : asg[i] = k})

\* sums_r[k], sums_g[k], sums_b[k] for ch = 1, 2, 3 (u32: no overflow below
\* 2^24 pixels)
RECURSIVE ChannelSum(_, _, _, _, _)
ChannelSum(px, asg, k, ch, i) ==
    IF i > Len(px) THEN 0
    ELSE (IF asg[i] = k THEN px[i][ch] ELSE 0) + ChannelSum(px, asg, k, ch, i + 1)

\* (sums[i] / counts[i]) as u8, per channel: the truncated mean.
ClusterMean(px, asg, k) ==
    LET c == ClusterCount(asg, k)
    IN  <<ChannelSum(px, asg, k, 1, 1) \div c,
          ChannelSum(px, asg, k, 2, 1) \div c,
          ChannelSum(px, asg, k, 3, 1) \div c>>

\* new_centroids.push(centroids[i]) indexes past the end of centroids, and the
\* thread panics, when cluster i is empty and centroids has no entry i.
UpdatePanics(asg, cs, K) ==
    \E i \in 0..(K - 1) : ClusterCount(asg, i) = 0 /\ i >= Len(cs)

\* for i in 0..self.num_colors: the mean of the cluster, or the old centroid.
UpdateCentroids(px, asg, cs, K) ==
    [i \in 1..K |-> IF ClusterCount(asg, i - 1) > 0
                    THEN ClusterMean(px, asg, i - 1)
                    ELSE cs[i]]

\* if !changed && iteration > 5 { break } (iteration is the 0-based pass index)
StopsEarly(chg, pass) == ~chg /\ pass > SETTLE_FLOOR

(***************************************************************************)
(* The tail of kmeans_clustering: order by frequency, drop empty clusters  *)
(***************************************************************************)
\* sort_by(|a, b| b.2.cmp(&a.2)) is a stable sort: descending count, equal
\* counts in index order.  SortedIndices lists the 0-based cluster indices in
\* that order; its mutant SortedIndicesAscending compares a.2 with b.2 and
\* lists the least frequent cluster first.
RECURSIVE SortedIndicesAscending(_, _)
SortedIndicesAscending(rest, asg) ==
    IF rest = {} THEN <<>>
    ELSE LET first == CHOOSE i \in rest : \A j \in rest :
                          \/ ClusterCount(asg, i) < ClusterCount(asg, j)
                          \/ ClusterCount(asg, i) = ClusterCount(asg, j) /\ i <= j
         IN  <<first>> \o SortedIndicesAscending(rest \ {first}, asg)

RECURSIVE SortedIndices(_, _)
SortedIndices(rest, asg) ==
    IF rest = {} THEN <<>>
    ELSE LET first == CHOOSE i \in rest : \A j \in rest :
                          \/ ClusterCount(asg, i) > ClusterCount(asg, j)
                          \/ ClusterCount(asg, i) = ClusterCount(asg, j) /\ i <= j
         IN  <<first>> \o SortedIndices(rest \ {first}, asg)

\* Mutant of KeepCluster: the filter of the empty clusters is lost.
KeepClusterAlways(count) == TRUE

\* .filter(|(_, _, count)| *count > 0)
KeepCluster(count) == count > 0

RECURSIVE FilterClusters(_, _, _)
FilterClusters(order, cs, asg) ==
    IF order = <<>> THEN <<>>
    ELSE (IF KeepCluster(ClusterCount(asg, Head(order)))
          THEN <<cs[Head(order) + 1]>> ELSE <<>>)
         \o FilterClusters(Tail(order), cs, asg)

FinalPalette(cs, asg) ==
    FilterClusters(SortedIndices(0..(Len(cs) - 1), asg), cs, asg)

(***************************************************************************)
(* kmeans_clustering as a function: [status, palette]                      *)
(***************************************************************************)
RECURSIVE KMeansLoop(_, _, _, _, _, _)
KMeansLoop(px, K, cap, cs, asg, pass) ==
    IF pass >= cap THEN [status |-> "ok", palette |-> FinalPalette(cs, asg)]
    ELSE LET asg2 == AssignPixels(px, cs)
             chg == asg2 # asg
         IN  IF UpdatePanics(asg2, cs, K) THEN [status |-> "panic", palette |-> <<>>]
             ELSE LET cs2 == UpdateCentroids(px, asg2, cs, K)
                  IN  IF StopsEarly(chg, pass)
                      THEN [status |-> "ok", palette |-> FinalPalette(cs2, asg2)]
                      ELSE KMeansLoop(px, K, cap, cs2, asg2, pass + 1)

kmeans_clustering(px, K, cap) ==
    IF px = <<>> THEN [status |-> "ok", palette |-> <<>>]
    ELSE KMeansLoop(px, K, cap, initialize_centroids(px, K),
                    [i \in 1..Len(px) |-> 0], 0)

(***************************************************************************)
(* SpecKMeans: kmeans_clustering, one loop pass per step                   *)
(***************************************************************************)
\* The colors of the input pixels, and the inputs drawn from them.
KMColors == {<<0, 0, 0>>, <<1, 0, 0>>, <<0, 1, 0>>, <<1, 1, 0>>}

SeqsUpTo(S, n) == UNION {[1..m -> S] : m \in 0..n}

KMPixelInputs == SeqsUpTo(KMColors, MaxPixels)
KMCaps == (0..MaxCap) \cup {EXTRACT_MAX_ITERATIONS}

LoopOff ==
    /\ pc = "off"
    /\ headless = TRUE
    /\ sprites = [speed |-> 0]
    /\ frame_count = 0
    /\ camera_x = 0
    /\ window_buffer = <<>>
    /\ color_map = None
    /\ color_to_index_map = None
    /\ gif_frames = 0
    /\ gif_buffer = <<>>
    /\ gif_palette = <<>>
    /\ finalize_calls = 0

SceneOff ==
    /\ sc_pc = "off"
    /\ source = [width |-> 0, height |-> 0, px |-> <<>>]
    /\ layer_files = <<>>
    /\ slicer_result = "none"
    /\ layers = <<>>
    /\ canvas = <<>>
    /\ written = {}
    /\ stamped = <<>>
    /\ sc_camera_x = 0
    /\ sc_frames = 0

\* The view when no stamp position is computed.
NoView == [camera_x |-> 0, divisor |-> 1, texture_width |-> 1, window_width |-> 1]

TextOff ==
    /\ tx_pc = "off"
    /\ tx_color = <<0, 0, 0>>
    /\ tx_packed = 0
    /\ tx_rgb = <<0, 0, 0>>
    /\ tx_text = <<>>
    /\ tx_out = <<>>
    /\ tx_view = NoView
    /\ tx_stamp = [offset_x |-> 0, x |-> 0, y |-> 0]

KMOff ==
    /\ km_pc = "off"
    /\ pixels = <<>>
    /\ num_colors = 0
    /\ max_iterations = 0
    /\ centroids = <<>>
    /\ assignments = <<>>
    /\ iteration = 0
    /\ changed = FALSE
    /\ km_result = <<>>

KMInit ==
    /\ km_pc = "start"
    /\ pixels \in KMPixelInputs
    /\ num_colors \in 1..MaxK
    /\ max_iterations \in KMCaps
    /\ centroids = <<>>
    /\ assignments = <<>>
    /\ iteration = 0
    /\ changed = FALSE
    /\ km_result = <<>>
    /\ LoopOff
    /\ SceneOff
    /\ TextOff

\* if pixels.is_empty() { return Ok(vec![]) }; initialize_centroids;
\* assignments = vec![0; pixels.len()]
KMStart ==
    /\ km_pc = "start"
    /\ IF pixels = <<>>
       THEN /\ km_pc' = "done"
            /\ UNCHANGED <<centroids, assignments>>
       ELSE /\ km_pc' = "loop"
            /\ centroids' = initialize_centroids(pixels, num_colors)
            /\ assignments' = [i \in 1..Len(pixels) |-> 0]
    /\ UNCHANGED <<pixels, num_colors, max_iterations, iteration, changed, km_result>>
    /\ UNCHANGED <<loopVars, sceneVars, textVars>>

\* One pass of for iteration in 0..self.max_iterations: assignment, centroid
\* update, and the early break.
KMPass ==
    /\ km_pc = "loop"
    /\ iteration < max_iterations
    /\ LET asg2 == AssignPixels(pixels, centroids)
           chg == asg2 # assignments
       IN  /\ assignments' = asg2
           /\ changed' = chg
           /\ iteration' = iteration + 1
           /\ IF UpdatePanics(asg2, centroids, num_colors)
              THEN /\ km_pc' = "panic"
                   /\ UNCHANGED centroids
              ELSE /\ centroids' = UpdateCentroids(pixels, asg2, centroids, num_colors)
                   /\ km_pc' = IF StopsEarly(chg, iteration) THEN "tail" ELSE "loop"
    /\ UNCHANGED <<pixels, num_colors, max_iterations, km_result>>
    /\ UNCHANGED <<loopVars, sceneVars, textVars>>

\* After the loop: count, sort, filter, return Ok(result).
KMReturn ==
    /\ \/ km_pc = "tail"
       \/ km_pc = "loop" /\ iteration >= max_iterations
    /\ km_result' = FinalPalette(centroids, assignments)
    /\ km_pc' = "done"
    /\ UNCHANGED <<pixels, num_colors, max_iterations, centroids, assignments,
                   iteration, changed>>
    /\ UNCHANGED <<loopVars, sceneVars, textVars>>

KMNext == KMStart \/ KMPass \/ KMReturn

SpecKMeans == KMInit /\ [][KMNext]_vars

(***************************************************************************)
(* extract_palette: the palette bytes and the packed-color lookup          *)
(***************************************************************************)
\* ((color.r as u32) << 16) | ((color.g as u32) << 8) | (color.b as u32)
packed_color(color) == color[1] * 65536 + color[2] * 256 + color[3]

\* palette.iter().flat_map(|color| vec![color.r, color.g, color.b]).collect()
RECURSIVE FlatBytes(_)
FlatBytes(palette) ==
    IF palette = <<>> THEN <<>>
    ELSE Head(palette) \o FlatBytes(Tail(palette))

\* palette.iter().enumerate().map(|(i, color)| (packed_color, i as u8)).collect():
\* a later entry replaces an earlier one with the same key.  The mutant
\* LookupFromOneBased numbers the palette slots from 1.
RECURSIVE LookupFromOneBased(_, _, _)
LookupFromOneBased(palette, i, map) ==
    IF i >= Len(palette) THEN map
    ELSE LookupFromOneBased(palette, i + 1,
                            (packed_color(palette[i + 1]) :> ((i + 1) % 256)) @@ map)

RECURSIVE LookupFrom(_, _, _)
LookupFrom(palette, i, map) ==
    IF i >= Len(palette) THEN map
    ELSE LookupFrom(palette, i + 1,
                    (packed_color(palette[i + 1]) :> (i % 256)) @@ map)

extract_palette(palette) ==
    [color_map |-> FlatBytes(palette),
     color_to_index_map |-> LookupFrom(palette, 0, <<>>)]

(***************************************************************************)
(* The encoder: process_frame and map_pixels_to_indices                    *)
(***************************************************************************)
\* color_map.chunks(3).map(|chunk| (chunk[0], chunk[1], chunk[2])).collect()
Chunks3(bytes) ==
    [i \in 1..(Len(bytes) \div 3) |-> <<bytes[3 * i - 2], bytes[3 * i - 1], bytes[3 * i]>>]

\* The unpacking with the mask of the green channel left out.
pixel_rgb_unmasked(pixel) ==
    <<(pixel \div 65536) % 256, pixel \div 256, pixel % 256>>

\* (((pixel >> 16) & 0xFF) as u8, ((pixel >> 8) & 0xFF) as u8, (pixel & 0xFF) as u8)
pixel_rgb(pixel) ==
    <<(pixel \div 65536) % 256, (pixel \div 256) % 256, pixel % 256>>

\* color_distance: the f64 square root of an i32 sum of squares; as for
\* distance_to, the comparisons are those of the sums.
color_distance(color1, color2) ==
    LET dr == (color1[1] - color2[1]) * (color1[1] - color2[1])
        dg == (color1[2] - color2[2]) * (color1[2] - color2[2])
        db == (color1[3] - color2[3]) * (color1[3] - color2[3])
    IN  dr + dg + db

\* Mutant of KeepsHeld: an equal distance replaces the element held, so the
\* last of several minima is returned.
KeepsHeldStrict(dist_held, dist_next) == dist_held < dist_next

\* Iterator::min_by keeps the element it holds unless the next one compares
\* strictly less: the first of several minima is returned.
KeepsHeld(dist_held, dist_next) == dist_held <= dist_next

RECURSIVE MinByFrom(_, _, _, _)
MinByFrom(rgb, palette, j, held) ==
    IF j >= Len(palette) THEN held
    ELSE IF KeepsHeld(color_distance(rgb, palette[held + 1]),
                      color_distance(rgb, palette[j + 1]))
         THEN MinByFrom(rgb, palette, j + 1, held)
         ELSE MinByFrom(rgb, palette, j + 1, j)

\* palette.iter().enumerate().min_by(..).map(|(index, _)| index as u8).unwrap_or(0)
closest_color_index(rgb, palette) ==
    IF palette = <<>> THEN 0
    ELSE MinByFrom(rgb, palette, 1, 0) % 256

\* let next_index = color_to_index_map.len() as u8, taken once per call.
next_index_of(map) == Cardinality(DOMAIN map) % 256

\* if next_index == u8::MAX { exit(1) }, asked when a pixel is not in the map.
Exhausted(next_index) == next_index = U8_MAX

\* The closure color_to_index on one pixel, given the map as the call found
\* it: *color_to_index_map.entry(pixel).or_insert_with(..) returns the entry
\* of a pixel that has one, and enters a new pixel with its closest palette
\* index.
color_to_index(map, pixel, palette) ==
    IF pixel \in DOMAIN map THEN map[pixel]
    ELSE closest_color_index(pixel_rgb(pixel), palette)

\* Mutant of map_pixels_to_indices: the cache is rebuilt for every frame, so
\* the entries of colors that are not in the frame are lost.
map_pixels_to_indices_fresh_cache(buffer, map, palette) ==
    LET next_index == next_index_of(map)
        fresh == {i \in 1..Len(buffer) : buffer[i] \notin DOMAIN map}
        map2 == [p \in {buffer[i] : i \in 1..Len(buffer)} |->
                    closest_color_index(pixel_rgb(p), palette)]
    IN  IF fresh # {} /\ Exhausted(next_index)
        THEN LET stop == CHOOSE i \in fresh : \A j \in fresh : i <= j
             IN  [exit |-> TRUE, map |-> map,
                  out |-> [i \in 1..(stop - 1) |-> map[buffer[i]]]]
        ELSE [exit |-> FALSE, map |-> map2,
              out |-> [i \in 1..Len(buffer) |-> map2[buffer[i]]]]

\* buffer.iter().map(|&pixel| color_to_index(pixel)).collect().  next_index is
\* fixed for the call and an entry is never replaced, so the pixels in order
\* give: exit(1) at the first pixel without an entry when next_index is
\* u8::MAX; otherwise every pixel of the buffer has an entry afterwards, the
\* old one or the one or_insert_with computed.
map_pixels_to_indices(buffer, map, palette) ==
    LET next_index == next_index_of(map)
        fresh == {i \in 1..Len(buffer) : buffer[i] \notin DOMAIN map}
        map2 == [p \in DOMAIN map \cup {buffer[i] : i \in 1..Len(buffer)} |->
                    color_to_index(map, p, palette)]
    IN  IF fresh # {} /\ Exhausted(next_index)
        THEN LET stop == CHOOSE i \in fresh : \A j \in fresh : i <= j
             IN  [exit |-> TRUE, map |-> map,
                  out |-> [i \in 1..(stop - 1) |-> map[buffer[i]]]]
        ELSE [exit |-> FALSE, map |-> map2,
              out |-> [i \in 1..Len(buffer) |-> map2[buffer[i]]]]

\* Mutant of process_frame: the indices are written back over the pixels of
\* the window buffer.
process_frame_in_place(buffer, cmap, cidx) ==
    LET palette == IF cmap.some THEN Chunks3(cmap.v) ELSE <<>>
        mapped == IF cidx.some
                  THEN map_pixels_to_indices(buffer, cidx.v, palette)
                  ELSE [exit |-> FALSE, map |-> <<>>, out |-> <<>>]
    IN  [exit |-> mapped.exit,
         map |-> IF cidx.some THEN Some(mapped.map) ELSE None,
         buffer |-> mapped.out,
         palette_bytes |-> IF cmap.some THEN cmap.v ELSE <<>>,
         window_buffer |-> [i \in 1..Len(buffer) |->
                               IF i <= Len(mapped.out) THEN mapped.out[i] ELSE buffer[i]]]

\* process_frame up to the call of write_frame_to_gif: the palette of the
\* frame, the index buffer, the map as it is left, and the window buffer,
\* which is only read.
process_frame(buffer, cmap, cidx) ==
    LET palette == IF cmap.some THEN Chunks3(cmap.v) ELSE <<>>
        mapped == IF cidx.some
                  THEN map_pixels_to_indices(buffer, cidx.v, palette)
                  ELSE [exit |-> FALSE, map |-> <<>>, out |-> <<>>]
    IN  [exit |-> mapped.exit,
         map |-> IF cidx.some THEN Some(mapped.map) ELSE None,
         buffer |-> mapped.out,
         palette_bytes |-> IF cmap.some THEN cmap.v ELSE <<>>,
         window_buffer |-> buffer]

(***************************************************************************)
(* Spec: start_event_loop, one loop iteration per step                     *)
(***************************************************************************)
\* The source image handed to extract_palette, after resizing: pixel
\* sequences over ImageColors, clustered into PaletteK colors (256 in
\* extract_palette) with the iteration cap of extract_palette.
ImageColors == {<<0, 0, 0>>, <<0, 0, 2>>, <<0, 2, 0>>}
ImageInputs == UNION {[1..m -> ImageColors] : m \in PaletteK..MaxImagePixels}

ExtractedPalettes ==
    {kmeans_clustering(img, PaletteK, EXTRACT_MAX_ITERATIONS).palette :
        img \in {i \in ImageInputs :
                    kmeans_clustering(i, PaletteK, EXTRACT_MAX_ITERATIONS).status = "ok"}}

\* The frame the encoder is handed at a camera position, as a family of
\* scenes (the compositor itself is update_pixel_buffer, below): a
\* static part, the same StaticPixels in every frame, and a scrolling part,
\* ScrollPixels consecutive colors of a ramp that moves by sprites.speed colors
\* per camera step.  The last static pixel has a bit set in the top byte of the
\* u32, above the 24 color bits.
StaticPixels == <<packed_color(<<0, 0, 0>>), packed_color(<<0, 0, 1>>),
                  16777216 + packed_color(<<0, 0, 2>>)>>
RampColor(i) == packed_color(<<1, (i \div 256) % 256, i % 256>>)
SpriteInputs == {[speed |-> v] : v \in 0..MaxSpeed}

\* Mutant of ScrollScene: the scene is composited after the camera advanced.
ScrollSceneAfterAdvance(sp, cam_x) ==
    StaticPixels \o
    [i \in 1..ScrollPixels |->
        RampColor(((cam_x + CAMERA_STEP) \div CAMERA_STEP) * sp.speed + i - 1)]

ScrollScene(sp, cam_x) ==
    StaticPixels \o
    [i \in 1..ScrollPixels |-> RampColor((cam_x \div CAMERA_STEP) * sp.speed + i - 1)]

\* The palette state of State: canonical (extract_palette), adaptive (no
\* palette, an empty map) or none.
PaletteStates ==
    {<<Some(extract_palette(p).color_map), Some(extract_palette(p).color_to_index_map)>> :
        p \in ExtractedPalettes}
    \cup {<<None, Some(<<>>)>>, <<None, None>>}

Init ==
    /\ KMOff
    /\ SceneOff
    /\ TextOff
    /\ pc = "Running"
    /\ headless \in BOOLEAN
    /\ frame_count = 0
    /\ camera_x = 0
    /\ window_buffer = [i \in 1..(Len(StaticPixels) + ScrollPixels) |-> 0]
    /\ sprites \in SpriteInputs
    /\ \E ps \in PaletteStates : color_map = ps[1] /\ color_to_index_map = ps[2]
    /\ gif_frames = 0
    /\ gif_buffer = <<>>
    /\ gif_palette = <<>>
    /\ finalize_calls = 0

\* Mutant of should_process_frame: the frame gate never opens.
should_never_process_frame == FALSE

\* last_update.elapsed() >= Duration::from_nanos(0)
should_process_frame == TRUE

\* Mutant of CanEncode: the bound is compared with <=.
CanEncodeInclusive(fc) == fc <= MAX_GIF_FRAMES

\* if frame_count < MAX_GIF_FRAMES
CanEncode(fc) == fc < MAX_GIF_FRAMES

\* Mutant of CanBreak: the window is asked in headless mode too.
CanBreakAlways(hl) == TRUE

\* if !headless && !is_window_open(&state) { break }: the loop can be left
\* this way in windowed mode only.
CanBreak(hl) == ~hl

\* Mutant of write_frame_to_gif: the error of write_frame is dropped and the
\* loop goes on.
write_frame_error_ignored(write_ok) == "Running"

\* encoder.write_frame(&frame).expect("Failed to write frame to GIF"): the
\* state the loop is in after the call.
write_frame_to_gif(write_ok) == IF write_ok THEN "Running" ELSE "Panicked"

\* The break of the loop: start_event_loop returns, the encoder and the file
\* gifs/gif_<date>.gif are dropped as they are.
TickCancel ==
    /\ pc = "Running"
    /\ CanBreak(headless)
    /\ pc' = "Cancelled"
    /\ UNCHANGED <<headless, sprites, frame_count, camera_x, window_buffer, color_map,
                   color_to_index_map, gif_frames, gif_buffer, gif_palette,
                   finalize_calls>>
    /\ UNCHANGED <<kmVars, sceneVars, textVars>>

\* A loop iteration that encodes: update_pixel_buffer, render_pixel_buffer,
\* simulate_camera_movement, process_frame (which may exit the process with
\* status 1, or panic when the frame cannot be written).
TickEncode ==
    /\ pc = "Running"
    /\ should_process_frame
    /\ CanEncode(frame_count)
    /\ \E write_ok \in BOOLEAN :
          LET scene == ScrollScene(sprites, camera_x)
              r == process_frame(scene, color_map, color_to_index_map)
          IN  /\ window_buffer' = r.window_buffer
              /\ camera_x' = camera_x + CAMERA_STEP
              /\ frame_count' = frame_count + 1
              /\ color_to_index_map' = r.map
              /\ IF r.exit
                 THEN /\ pc' = "Exit1"
                      /\ UNCHANGED <<gif_frames, gif_buffer, gif_palette>>
                 ELSE /\ gif_frames' = IF write_ok THEN gif_frames + 1 ELSE gif_frames
                      /\ gif_buffer' = r.buffer
                      /\ gif_palette' = r.palette_bytes
                      /\ pc' = write_frame_to_gif(write_ok)
    /\ UNCHANGED <<headless, sprites, color_map, finalize_calls>>
    /\ UNCHANGED <<kmVars, sceneVars, textVars>>

\* The loop iteration after the last frame: finalize_gif_encoding (which
\* panics when the copy fails) and exit(0).
TickFinalize ==
    /\ pc = "Running"
    /\ should_process_frame
    /\ ~CanEncode(frame_count)
    /\ window_buffer' = ScrollScene(sprites, camera_x)
    /\ \E copy_ok \in BOOLEAN : pc' = IF copy_ok THEN "Done" ELSE "Panicked"
    /\ camera_x' = camera_x + CAMERA_STEP
    /\ finalize_calls' = finalize_calls + 1
    /\ UNCHANGED <<headless, sprites, frame_count, color_map, color_to_index_map,
                   gif_frames, gif_buffer, gif_palette>>
    /\ UNCHANGED <<kmVars, sceneVars, textVars>>

Next == TickCancel \/ TickEncode \/ TickFinalize

Spec == Init /\ [][Next]_vars


(***************************************************************************)
(* SpecScene: main, the layer slicer and the compositor                    *)
(***************************************************************************)
\* The canvas, scaled down from 1024 x 1024: LAYER_COUNT bands of BandRows
\* rows (256 in create_parallax_layers) and CanvasWidth columns, wide enough
\* for every offset a run reaches to stay below the width, as on the real
\* canvas.
CanvasWidth == 208
BandRows == 2
LAYER_COUNT == 4
CanvasHeight == LAYER_COUNT * BandRows

\* for (i, divisor) in [16, 10, 6, 1].iter().enumerate()
LAYER_DIVISORS == <<16, 10, 6, 1>>
\* game_state.camera.y as usize / 666
Y_DIVISOR == 666
\* Camera::new(0.0, 0.0); nothing changes camera.y
CAMERA_Y == 0

\* Rgba([0, 0, 0, 0]); a pixel is <<rgb, alpha>> (alpha 255 when opaque), and
\* the u32 0 of a fresh window buffer is the same pair.
TRANSPARENT == <<0, 0>>

\* Source images: one with every pixel of its own color and one with
\* transparent pixels too, of the required dimensions; and images of one
\* color with a wrong width or a wrong height.
DistinctPixel(x, y) == <<y * (CanvasWidth + 1) + x + 1, 255>>
UniformPixel(x, y) == <<7, 255>>
HolePixel(x, y) == IF x = y THEN TRANSPARENT ELSE DistinctPixel(x, y)

PixelAt(kind, x, y) ==
    CASE kind = "distinct" -> DistinctPixel(x, y)
      [] kind = "hole" -> HolePixel(x, y)
      [] OTHER -> UniformPixel(x, y)

\* An image of w x h pixels in row-major order; the pixel at column x, row y
\* is px[y * w + x + 1].
Image(w, h, kind) ==
    [width |-> w, height |-> h,
     px |-> [k \in 1..(w * h) |-> PixelAt(kind, (k - 1) % w, (k - 1) \div w)]]

SourceInputs ==
    {Image(CanvasWidth, CanvasHeight, "distinct"),
     Image(CanvasWidth, CanvasHeight, "hole"),
     Image(CanvasWidth - 1, CanvasHeight, "uniform"),
     Image(CanvasWidth, CanvasHeight + 1, "uniform")}

\* Mutant of InBand: the upper row bound is compared with <=.
InBandInclusive(i, y) == y >= i * BandRows /\ y <= (i + 1) * BandRows

\* y >= (i * 256) as u32 && y < ((i + 1) * 256) as u32
InBand(i, y) == y >= i * BandRows /\ y < (i + 1) * BandRows

\* ImageBuffer::from_fn(width, height, |x, y| ..) for layer i (0-based)
LayerOf(img, i) ==
    [width |-> img.width, height |-> img.height,
     px |-> [k \in 1..(img.width * img.height) |->
                IF InBand(i, (k - 1) \div img.width) THEN img.px[k] ELSE TRANSPARENT]]

\* Mutant of DimensionsOk: only the width is compared.
DimensionsOkWidthOnly(w, h) == w = CanvasWidth

\* the negation of  width != 1024 || height != 1024
DimensionsOk(w, h) == w = CanvasWidth /\ h = CanvasHeight

\* create_parallax_layers(input_path, current_date) on the decoded image img
\* with the layer files as they are on disk; fail_at = 0 when every
\* layer.save succeeds, else the 1-based layer whose save fails (`?` returns
\* at once, the earlier layers stay written).
create_parallax_layers(img, files, fail_at) ==
    IF ~DimensionsOk(img.width, img.height)
    THEN [status |-> "dimension", files |-> files]
    ELSE [status |-> IF fail_at = 0 THEN "ok" ELSE "io",
          files |-> [i \in 1..LAYER_COUNT |->
                        IF fail_at = 0 \/ i < fail_at
                        THEN Some(LayerOf(img, i - 1))
                        ELSE files[i]]]

\* The layer files an earlier run of the same date left on disk.
StaleSource == Image(CanvasWidth, CanvasHeight, "uniform")
StaleFiles == [i \in 1..LAYER_COUNT |-> Some(LayerOf(StaleSource, i - 1))]
NoFiles == [i \in 1..LAYER_COUNT |-> None]

\* SpriteMaps::new(current_date): the four layer images of the date, read
\* from disk.
FilesPresent(files) == \A i \in 1..LAYER_COUNT : files[i].some
SpriteMaps_new(files) == [i \in 1..LAYER_COUNT |-> files[i].v]

\* draw_sprite(x, y, sprite, window_buffer, window_width): every sprite pixel
\* that is not transparent is copied to the buffer at index
\* (y + row) * window_width + (x + col), when the buffer has that index.
\* StampSource gives, for a 0-based buffer index, the sprite pixel that lands
\* there (for a sprite no wider than the buffer rows), or TRANSPARENT.
StampSource(x, y, sprite, width, index) ==
    LET t == index - (y * width + x)
    IN  IF t >= 0 /\ t % width < sprite.width /\ t \div width < sprite.height
        THEN sprite.px[(t \div width) * sprite.width + (t % width) + 1]
        ELSE TRANSPARENT

\* The effect of one draw_sprite call on the buffer index j (1-based), which
\* holds held.px, written so far in this update or not (held.hit).
draw_sprite(x, y, sprite, width, j, held) ==
    LET p == StampSource(x, y, sprite, width, j - 1)
    IN  IF p[2] # 0 THEN [px |-> p, hit |-> TRUE] ELSE held

\* Mutant of saturating_sub: the subtraction is not saturated.
plain_sub(a, b) == a - b

\* usize::saturating_sub
saturating_sub(a, b) == IF a >= b THEN a - b ELSE 0

\* game_state.camera.x as usize / divisor % texture_width
offset_x(cam_x, divisor, texture_width) == (cam_x \div divisor) % texture_width
offset_y(cam_y) == cam_y \div Y_DIVISOR

\* Mutant of Stamps: the static stamp of the first layer is left out.
StampsWithoutBase(cam_x, width) ==
    [i \in 1..LAYER_COUNT |->
        [x |-> saturating_sub(width, offset_x(cam_x, LAYER_DIVISORS[i], width)),
         y |-> offset_y(CAMERA_Y), layer |-> i]]

\* Mutant of Stamps: the loop skips the first layer.
StampsRemainingLayers(cam_x, width) ==
    <<[x |-> 0, y |-> 0, layer |-> 1]>> \o
    [i \in 1..(LAYER_COUNT - 1) |->
        [x |-> saturating_sub(width, offset_x(cam_x, LAYER_DIVISORS[i + 1], width)),
         y |-> offset_y(CAMERA_Y), layer |-> i + 1]]

\* The draw_sprite calls of update_pixel_buffer in order: the first layer at
\* (0, 0), then every layer at (window_width - offset_x, offset_y).
Stamps(cam_x, width) ==
    <<[x |-> 0, y |-> 0, layer |-> 1]>> \o
    [i \in 1..LAYER_COUNT |->
        [x |-> saturating_sub(width, offset_x(cam_x, LAYER_DIVISORS[i], width)),
         y |-> offset_y(CAMERA_Y), layer |-> i]]

\* The draw_sprite calls stamps[s..] in order, on the buffer index j.
RECURSIVE DrawAll(_, _, _, _, _, _)
DrawAll(stamps, s, sprite_layers, width, j, held) ==
    IF s > Len(stamps) THEN held
    ELSE DrawAll(stamps, s + 1, sprite_layers, width, j,
                 draw_sprite(stamps[s].x, stamps[s].y, sprite_layers[stamps[s].layer],
                             width, j, held))

\* update_pixel_buffer(game_state): the buffer it leaves, the indices it
\* wrote and the draw_sprite calls it made.
update_pixel_buffer(sprite_layers, buf, cam_x, width) ==
    LET stamps == Stamps(cam_x, width)
        drawn == [j \in 1..Len(buf) |->
                    DrawAll(stamps, 1, sprite_layers, width, j,
                            [px |-> buf[j], hit |-> FALSE])]
    IN  [buffer |-> [j \in 1..Len(buf) |-> drawn[j].px],
         written |-> {j \in 1..Len(buf) : drawn[j].hit},
         stamps |-> stamps]

SceneInit ==
    /\ KMOff
    /\ LoopOff
    /\ TextOff
    /\ sc_pc = "main"
    /\ source \in SourceInputs
    /\ layer_files \in {NoFiles, StaleFiles}
    /\ slicer_result = "none"
    /\ layers = <<>>
    /\ canvas = <<>>
    /\ written = {}
    /\ stamped = <<>>
    /\ sc_camera_x = 0
    /\ sc_frames = 0

\* main: create_parallax_layers(..).unwrap_or_else(|e| eprintln!(..)): the
\* error is printed and main goes on.
MainSlice ==
    /\ sc_pc = "main"
    /\ \E fail_at \in 0..LAYER_COUNT :
          LET r == create_parallax_layers(source, layer_files, fail_at)
          IN  /\ slicer_result' = r.status
              /\ layer_files' = r.files
    /\ sc_pc' = "sliced"
    /\ UNCHANGED <<source, layers, canvas, written, stamped, sc_camera_x, sc_frames>>
    /\ UNCHANGED <<kmVars, loopVars, textVars>>

\* main: SpriteMaps::new(current_date), the buffers, the camera, the State;
\* start_event_loop is entered.
MainLoadSprites ==
    /\ sc_pc = "sliced"
    /\ IF FilesPresent(layer_files)
       THEN /\ layers' = SpriteMaps_new(layer_files)
            /\ canvas' = [j \in 1..(CanvasWidth * CanvasHeight) |-> TRANSPARENT]
            /\ sc_pc' = "Running"
       ELSE /\ sc_pc' = "Panicked"
            /\ UNCHANGED <<layers, canvas>>
    /\ UNCHANGED <<source, layer_files, slicer_result, written, stamped, sc_camera_x,
                   sc_frames>>
    /\ UNCHANGED <<kmVars, loopVars, textVars>>

\* One iteration of the loop of start_event_loop: update_pixel_buffer,
\* simulate_camera_movement, then process_frame or, after the last frame,
\* finalize_gif_encoding and exit(0).
SceneTick ==
    /\ sc_pc = "Running"
    /\ LET r == update_pixel_buffer(layers, canvas, sc_camera_x, CanvasWidth)
       IN  /\ canvas' = r.buffer
           /\ written' = r.written
           /\ stamped' = r.stamps
    /\ sc_camera_x' = sc_camera_x + CAMERA_STEP
    /\ IF CanEncode(sc_frames)
       THEN /\ sc_frames' = sc_frames + 1
            /\ sc_pc' = "Running"
       ELSE /\ sc_pc' = "Done"
            /\ UNCHANGED sc_frames
    /\ UNCHANGED <<source, layer_files, slicer_result, layers>>
    /\ UNCHANGED <<kmVars, loopVars, textVars>>

SceneNext == MainSlice \/ MainLoadSprites \/ SceneTick

SpecScene == SceneInit /\ [][SceneNext]_vars

(***************************************************************************)
(* SpecText: the conversions, one application per step                     *)
(***************************************************************************)
\* static ASCII_REPLACEMENTS: HashMap<char, &'static str>, by code point.
ASCII_REPLACEMENTS ==
    (96 :> <<39>>) @@ (162 :> <<99>>) @@ (163 :> <<71, 66, 80>>) @@
    (165 :> <<74, 80, 89>>) @@ (169 :> <<40, 99, 41>>) @@ (171 :> <<34>>) @@
    (174 :> <<40, 114, 41>>) @@ (176 :> <<32, 100, 101, 103>>) @@
    (177 :> <<43, 47, 45>>) @@ (180 :> <<39>>) @@ (183 :> <<42>>) @@
    (187 :> <<34>>) @@ (215 :> <<120>>) @@ (223 :> <<115, 115>>) @@
    (224 :> <<97>>) @@ (225 :> <<97>>) @@ (226 :> <<97>>) @@
    (227 :> <<97>>) @@ (228 :> <<97>>) @@ (229 :> <<97>>) @@
    (230 :> <<97, 101>>) @@ (231 :> <<99>>) @@ (232 :> <<101>>) @@
    (233 :> <<101>>) @@ (234 :> <<101>>) @@ (235 :> <<101>>) @@
    (236 :> <<105>>) @@ (237 :> <<105>>) @@ (238 :> <<105>>) @@
    (239 :> <<105>>) @@ (241 :> <<110>>) @@ (242 :> <<111>>) @@
    (243 :> <<111>>) @@ (244 :> <<111>>) @@ (245 :> <<111>>) @@
    (246 :> <<111>>) @@ (247 :> <<47>>) @@ (248 :> <<111>>) @@
    (249 :> <<117>>) @@ (250 :> <<117>>) @@ (251 :> <<117>>) @@
    (252 :> <<117>>) @@ (253 :> <<121>>) @@ (255 :> <<121>>) @@
    (257 :> <<97>>) @@ (269 :> <<99>>) @@ (275 :> <<101>>) @@
    (299 :> <<105>>) @@ (333 :> <<111>>) @@ (339 :> <<111, 101>>) @@
    (363 :> <<117>>) @@ (8210 :> <<45>>) @@ (8211 :> <<45>>) @@
    (8212 :> <<45>>) @@ (8213 :> <<45>>) @@ (8226 :> <<42>>) @@
    (8227 :> <<42>>) @@ (8230 :> <<46, 46, 46>>) @@
    (8361 :> <<75, 82, 87>>) @@ (8364 :> <<69, 85, 82>>) @@
    (8377 :> <<73, 78, 82>>) @@ (8482 :> <<40, 116, 109, 41>>) @@
    (8592 :> <<60, 45>>) @@ (8593 :> <<94>>) @@ (8594 :> <<45, 62>>) @@
    (8595 :> <<118>>) @@ (8722 :> <<45>>) @@ (9679 :> <<42>>)

\* char::is_ascii
is_ascii_latin1(c) == c <= 255
is_ascii(c) == c <= 127

\* TextProcessor::enforce_ascii: for c in text.chars(), push the replacement
\* of a character of the table, push any other ASCII character, skip the rest.
RECURSIVE enforce_ascii_from(_, _)
enforce_ascii_from(text, result) ==
    IF text = <<>> THEN result
    ELSE LET c == Head(text) IN
         enforce_ascii_from(Tail(text),
             IF c \in DOMAIN ASCII_REPLACEMENTS
                 THEN result \o ASCII_REPLACEMENTS[c]
             ELSE IF is_ascii(c) THEN Append(result, c)
             ELSE result)

enforce_ascii(text) == enforce_ascii_from(text, <<>>)

\* Channel values given to the packing: both ends of u8, both sides of the
\* middle bit.
ByteSamples == {0, 1, 127, 128, 254, 255}

\* Characters of the input texts: 'C' 'a' 'f' '2' '0' kept as they are, '`'
\* an ASCII character of the table, U+00B0 and U+00E9 of the table, DEL the
\* last ASCII character, U+0080 the first character that is not ASCII and
\* U+0436 a letter outside the table.
TextChars == {67, 97, 102, 50, 48, 96, 176, 233, 127, 128, 1078}

TextInputs == SeqsUpTo(TextChars, MaxTextLen)

\* char::is_whitespace on the characters of the model: tab, line feed,
\* vertical tab, form feed, carriage return and space.
is_whitespace(c) == c \in {9, 10, 11, 12, 13, 32}

\* str::trim_end
RECURSIVE trim_end(_)
trim_end(text) ==
    IF text = <<>> THEN <<>>
    ELSE IF is_whitespace(text[Len(text)]) THEN trim_end(SubSeq(text, 1, Len(text) - 1))
    ELSE text

\* str::ends_with(char)
ends_with(text, c) == text # <<>> /\ text[Len(text)] = c

\* str::rfind(char): the 0-based index of the last occurrence, -1 for None.
rfind(text, c) ==
    IF \E i \in 1..Len(text) : text[i] = c
        THEN (CHOOSE i \in 1..Len(text) :
                 /\ text[i] = c
                 /\ \A j \in (i + 1)..Len(text) : text[j] # c) - 1
    ELSE -1

\* TextProcessor::remove_incomplete_last_sentence; '.' is 46, '!' 33, '?' 63.
remove_incomplete_last_sentence(text) ==
    LET trimmed == trim_end(text) IN
    IF trimmed = <<>> THEN <<>>
    ELSE IF ends_with(trimmed, 46) \/ ends_with(trimmed, 33) \/ ends_with(trimmed, 63)
        THEN trimmed
    ELSE LET last_period == rfind(trimmed, 46) IN
         IF last_period # -1 THEN SubSeq(trimmed, 1, last_period + 1)
         ELSE <<>>

\* Characters of the texts to trim: 'a', space, line feed, '.', '!', '?'.
SentenceChars == {97, 32, 10, 46, 33, 63}

SentenceInputs == SeqsUpTo(SentenceChars, MaxSentenceLen)

\* draw_parallax_layer, and the body of the loop of update_pixel_buffer: the
\* offset of a layer and the position its draw_sprite call is given.
draw_parallax_layer(view) ==
    LET off == offset_x(view.camera_x, view.divisor, view.texture_width)
    IN  [offset_x |-> off,
         x |-> saturating_sub(view.window_width, off),
         y |-> offset_y(CAMERA_Y)]

\* Layer and canvas widths, scaled down from 1024: equal, and one larger
\* than the other either way.
ViewWidths == {7, 12}

ViewInputs ==
    [camera_x : 0..MaxCameraX, divisor : {LAYER_DIVISORS[i] : i \in 1..LAYER_COUNT},
     texture_width : ViewWidths, window_width : ViewWidths]

TextInit ==
    /\ KMOff
    /\ LoopOff
    /\ SceneOff
    /\ tx_packed = 0
    /\ tx_rgb = <<0, 0, 0>>
    /\ tx_out = <<>>
    /\ tx_stamp = [offset_x |-> 0, x |-> 0, y |-> 0]
    /\ \/ /\ tx_pc = "color"
          /\ tx_color \in ByteSamples \X ByteSamples \X ByteSamples
          /\ tx_text = <<>>
          /\ tx_view = NoView
       \/ /\ tx_pc = "text"
          /\ tx_color = <<0, 0, 0>>
          /\ tx_text \in TextInputs
          /\ tx_view = NoView
       \/ /\ tx_pc = "sentence"
          /\ tx_color = <<0, 0, 0>>
          /\ tx_text \in SentenceInputs
          /\ tx_view = NoView
       \/ /\ tx_pc = "view"
          /\ tx_color = <<0, 0, 0>>
          /\ tx_text = <<>>
          /\ tx_view \in ViewInputs

\* extract_palette builds the key of a color.
PackColor ==
    /\ tx_pc = "color"
    /\ tx_packed' = packed_color(tx_color)
    /\ tx_pc' = "packed"
    /\ UNCHANGED <<tx_color, tx_rgb, tx_text, tx_out, tx_view, tx_stamp>>
    /\ UNCHANGED <<kmVars, loopVars, sceneVars>>

\* map_pixels_to_indices takes the channels of a pixel.
UnpackColor ==
    /\ tx_pc = "packed"
    /\ tx_rgb' = pixel_rgb(tx_packed)
    /\ tx_pc' = "unpacked"
    /\ UNCHANGED <<tx_color, tx_packed, tx_text, tx_out, tx_view, tx_stamp>>
    /\ UNCHANGED <<kmVars, loopVars, sceneVars>>

EnforceAscii ==
    /\ tx_pc = "text"
    /\ tx_out' = enforce_ascii(tx_text)
    /\ tx_pc' = "ascii"
    /\ UNCHANGED <<tx_color, tx_packed, tx_rgb, tx_text, tx_view, tx_stamp>>
    /\ UNCHANGED <<kmVars, loopVars, sceneVars>>

RemoveIncompleteLastSentence ==
    /\ tx_pc = "sentence"
    /\ tx_out' = remove_incomplete_last_sentence(tx_text)
    /\ tx_pc' = "trimmed"
    /\ UNCHANGED <<tx_color, tx_packed, tx_rgb, tx_text, tx_view, tx_stamp>>
    /\ UNCHANGED <<kmVars, loopVars, sceneVars>>

DrawParallaxLayer ==
    /\ tx_pc = "view"
    /\ tx_stamp' = draw_parallax_layer(tx_view)
    /\ tx_pc' = "stamped"
    /\ UNCHANGED <<tx_color, tx_packed, tx_rgb, tx_text, tx_out, tx_view>>
    /\ UNCHANGED <<kmVars, loopVars, sceneVars>>

TextNext ==
    \/ PackColor
    \/ UnpackColor
    \/ EnforceAscii
    \/ RemoveIncompleteLastSentence
    \/ DrawParallaxLayer

SpecText == TextInit /\ [][TextNext]_vars

(***************************************************************************)
(* Claims about kmeans_clustering (checked under SpecKMeans)               *)
(***************************************************************************)
Range(f) == {f[i] : i \in DOMAIN f}
NoDuplicates(f) == Cardinality(Range(f)) = Len(f)
KMEnded == km_pc \in {"done", "panic"}

\* C6: for every non-empty pixel sequence and requested size K,
\* kmeans_clustering returns a palette of exactly min(K, number of distinct
\* colors of the sequence) colors.
C6_PaletteLengthIsMin ==
    (KMEnded /\ pixels # <<>>)
        => /\ km_pc = "done"
           /\ Len(km_result) = Min2(num_colors, Cardinality(Range(pixels)))

\* C7: for a pixel sequence that is empty or has fewer pixels (or fewer
\* distinct colors) than K, kmeans_clustering completes normally and returns
\* a palette of at most that many colors; it never aborts.
C7_DegenerateInputsReturn ==
    (KMEnded /\ (Len(pixels) < num_colors \/ Cardinality(Range(pixels)) < num_colors))
        => /\ km_pc = "done"
           /\ Len(km_result) <= Cardinality(Range(pixels))

\* C8 as claimed: the returned palette never holds the same color twice, for
\* any pixel sequence, any K and any iteration cap.
C8_NoDuplicateColors ==
    km_pc = "done" => NoDuplicates(km_result)

\* C8 as amended: the returned palette never holds the same color twice when
\* the last pass moved no pixel to another cluster (or no pass ran).
C8_NoDuplicatesWhenSettled ==
    (km_pc = "done" /\ ~changed) => NoDuplicates(km_result)

\* A settled run that stopped before its cap and returned several colors.
C8_Witness ==
    /\ km_pc = "done"
    /\ ~changed
    /\ iteration > SETTLE_FLOOR
    /\ iteration < max_iterations
    /\ Len(km_result) >= 2
    /\ Len(km_result) < Len(pixels)

\* C9: when the pixels use U distinct colors and U <= K, the returned palette
\* holds exactly those U colors.
C9_ExactColorsWhenFew ==
    (KMEnded /\ Cardinality(Range(pixels)) <= num_colors)
        => /\ km_pc = "done"
           /\ Range(km_result) = Range(pixels)

(***************************************************************************)
(* Claims about the capture loop and the encoder (checked under Spec)      *)
(***************************************************************************)
Canonical == pc # "off" /\ color_map.some /\ color_to_index_map.some
Adaptive == pc # "off" /\ ~color_map.some /\ color_to_index_map.some
PaletteOf(cmap) == Chunks3(cmap.v)

\* C1: with the always-satisfied frame gate the loop encodes at most
\* MAX_GIF_FRAMES frames and finalizes at most once: the frame counter never
\* exceeds MAX_GIF_FRAMES, the encoder is never handed a frame beyond that,
\* finalize runs only with the counter (and the frames handed to the encoder)
\* at MAX_GIF_FRAMES, and the success exit follows exactly one finalize.
C1_FrameBudget ==
    /\ frame_count <= MAX_GIF_FRAMES
    /\ gif_frames <= MAX_GIF_FRAMES
    /\ finalize_calls <= 1
    /\ finalize_calls = 1 => (frame_count = MAX_GIF_FRAMES /\ gif_frames = MAX_GIF_FRAMES)
    /\ pc = "Done" => finalize_calls = 1

\* A run that encoded all its frames and finalized.
C1_Witness ==
    /\ pc = "Done"
    /\ gif_frames = MAX_GIF_FRAMES
    /\ finalize_calls = 1

\* index is a 0-based index of palette at the least distance from rgb, and the
\* lowest such index.
IsFirstNearest(index, rgb, palette) ==
    /\ index \in 0..(Len(palette) - 1)
    /\ \A j \in 0..(Len(palette) - 1) :
          color_distance(rgb, palette[index + 1]) <= color_distance(rgb, palette[j + 1])
    /\ \A j \in 0..(index - 1) :
          color_distance(rgb, palette[j + 1]) > color_distance(rgb, palette[index + 1])

C3_NoAbortWithCanonicalPalette ==
    Canonical
        => /\ pc # "Exit1"
           /\ gif_frames > 0 => Len(gif_buffer) = Len(window_buffer)

\* C4: the pixel-to-index map never holds more than 256 colors.
C4_MapHoldsAtMost256 ==
    color_to_index_map.some
        => Cardinality(DOMAIN color_to_index_map.v) <= U8_MAX + 1

\* C5: in adaptive mode each new color gets the next free index, so the n
\* colors of the map have the n different indices 0..n-1.
C5_AdaptiveNextFreeIndex ==
    Adaptive
        => LET m == color_to_index_map.v
           IN  /\ \A p, q \in DOMAIN m : p # q => m[p] # m[q]
               /\ Cardinality(DOMAIN m) <= U8_MAX + 1
                    => Range(m) = 0..(Cardinality(DOMAIN m) - 1)

\* C16: when write_frame fails the run stops at that frame: it is the last
\* frame handed to the encoder, the loop is not running and
\* finalize_gif_encoding (the copy to the stable path, the success exit) is
\* not reached.  A frame was handed over and not written exactly when
\* frame_count is ahead of gif_frames and the mapper did not exit.
C16_WriteFailureStopsRun ==
    (frame_count > gif_frames /\ pc # "Exit1")
        => /\ pc = "Panicked"
           /\ frame_count = gif_frames + 1
           /\ finalize_calls = 0

\* A write failed after some frames had been written.
C16_Witness ==
    /\ pc = "Panicked"
    /\ gif_frames >= 2
    /\ frame_count = gif_frames + 1
    /\ finalize_calls = 0

\* C17 as claimed: a cancelled run never entered finalize_gif_encoding and
\* left no animation artifact: no copy at the stable path and no animation
\* file with the frames encoded so far.
C17_CancelLeavesNothing ==
    pc = "Cancelled"
        => /\ finalize_calls = 0
           /\ gif_frames = 0

\* C17 as amended: a run is cancelled in windowed mode only, it never entered
\* finalize_gif_encoding, so no copy was made at the stable path; the file
\* gifs/gif_<date>.gif keeps every frame encoded before the cancellation.
C17_CancelSkipsFinalize ==
    pc = "Cancelled"
        => /\ ~headless
           /\ finalize_calls = 0
           /\ gif_frames = frame_count
           /\ gif_frames <= MAX_GIF_FRAMES

\* A run cancelled after some, not all, of its frames.
C17_Witness ==
    /\ pc = "Cancelled"
    /\ gif_frames >= 1
    /\ gif_frames < MAX_GIF_FRAMES

Composed == sc_pc \in {"Running", "Done"} /\ sc_camera_x > 0
ComposedAt == sc_camera_x - CAMERA_STEP
RowOf(k, w) == (k - 1) \div w
ColOf(k, w) == (k - 1) % w

\* Every loaded layer is opaque on all the rows of its band.
LayersOpaque ==
    \A i \in 1..LAYER_COUNT :
       \A k \in 1..Len(layers[i].px) :
          InBand(i - 1, RowOf(k, layers[i].width)) => layers[i].px[k][2] # 0

C12_TickZeroUnshifted ==
    (Composed /\ ComposedAt = 0 /\ slicer_result = "ok")
        => /\ \A i \in 1..LAYER_COUNT :
                 offset_x(ComposedAt, LAYER_DIVISORS[i], CanvasWidth) = 0
           /\ canvas = source.px

SourceOpaque == \A k \in 1..Len(source.px) : source.px[k][2] # 0
SourceHasRequiredSize == source.width = CanvasWidth /\ source.height = CanvasHeight

\* C13: for an opaque source image of the required size, create_parallax_layers
\* leaves 4 layers of the width and height of the source; layer i (0-based) is
\* opaque exactly on the rows of band i and transparent elsewhere, every
\* position is opaque in exactly one layer, and an opaque pixel is the source
\* pixel at its position.
C13_SlicerPartitions ==
    (sc_pc = "sliced" /\ slicer_result = "ok" /\ SourceOpaque)
        => /\ Len(layer_files) = LAYER_COUNT
           /\ \A i \in 1..LAYER_COUNT :
                 /\ layer_files[i].some
                 /\ layer_files[i].v.width = source.width
                 /\ layer_files[i].v.height = source.height
                 /\ Len(layer_files[i].v.px) = Len(source.px)
                 /\ \A k \in 1..Len(source.px) :
                       /\ layer_files[i].v.px[k][2] # 0
                            <=> RowOf(k, source.width) \div BandRows = i - 1
                       /\ layer_files[i].v.px[k][2] # 0
                            => layer_files[i].v.px[k] = source.px[k]
           /\ \A k \in 1..Len(source.px) :
                 Cardinality({i \in 1..LAYER_COUNT : layer_files[i].v.px[k][2] # 0}) = 1

\* An opaque source of several colors has been sliced.
C13_Witness ==
    /\ sc_pc = "sliced"
    /\ slicer_result = "ok"
    /\ SourceOpaque
    /\ source.px[1] # source.px[2]
    /\ \A i \in 1..LAYER_COUNT : layer_files[i].some

\* C14: for a source image that is not of the required size,
\* create_parallax_layers returns the dimension error and leaves every layer
\* file as it was: none is written, none is overwritten.
C14_DimensionErrorWritesNothing ==
    [][(sc_pc = "main" /\ ~SourceHasRequiredSize)
          => (slicer_result' = "dimension" /\ layer_files' = layer_files)]_vars

\* The slicer has refused an image of the right width and a wrong height,
\* with the layers of an earlier run on disk.
C14_Witness ==
    /\ sc_pc = "sliced"
    /\ slicer_result = "dimension"
    /\ source.width = CanvasWidth
    /\ source.height # CanvasHeight
    /\ layer_files = StaleFiles

\* C15: after the slicer has reported the dimension error the program stops:
\* the capture loop is not started and no frame is encoded.
C15_DimensionErrorStopsRun ==
    slicer_result = "dimension"
        => /\ sc_pc \notin {"Running", "Done"}
           /\ sc_frames = 0

(***************************************************************************)
(* Claims about the conversions (checked under SpecText)                   *)
(***************************************************************************)
\* C19: packing a Color into r<<16 | g<<8 | b and unpacking it with the
\* encoder's shifts and masks gives back the r, g and b of the color; the
\* packed value fits 24 bits.
C19_PackUnpackRoundTrip ==
    /\ tx_pc \in {"packed", "unpacked"} => tx_packed \in 0..16777215
    /\ tx_pc = "unpacked" => tx_rgb = tx_color

\* A color with three different non-zero channels went through both steps.
C19_Witness ==
    /\ tx_pc = "unpacked"
    /\ tx_color = <<255, 128, 1>>
    /\ tx_packed = 16744449

\* The image of one character as C20 states it.
CharImage(c) ==
    IF c \in DOMAIN ASCII_REPLACEMENTS THEN ASCII_REPLACEMENTS[c]
    ELSE IF c < 128 THEN <<c>>
    ELSE <<>>

RECURSIVE Concat(_)
Concat(seqs) == IF seqs = <<>> THEN <<>> ELSE Head(seqs) \o Concat(Tail(seqs))

\* C20: the output of enforce_ascii is the concatenation, in order, of the
\* images of the input characters, where a character of the table gives its
\* replacement, any other ASCII character gives itself and any other
\* character gives nothing; every character of the output is ASCII; "Cafe"
\* with an acute e gives "Cafe" and "20" degree "C" gives "20 degC".
C20_EnforceAsciiPerCharacter ==
    tx_pc = "ascii"
        => /\ tx_out = Concat([i \in 1..Len(tx_text) |-> CharImage(tx_text[i])])
           /\ \A k \in 1..Len(tx_out) : tx_out[k] \in 0..127
           /\ tx_text = <<67, 97, 102, 233>> => tx_out = <<67, 97, 102, 101>>
           /\ tx_text = <<50, 48, 176, 67>>
                  => tx_out = <<50, 48, 32, 100, 101, 103, 67>>

\* A text with a replaced character, a kept one and a dropped one went
\* through enforce_ascii.
C20_Witness ==
    /\ tx_pc = "ascii"
    /\ tx_text = <<67, 176, 1078, 128>>
    /\ tx_out = <<67, 32, 100, 101, 103>>

\* Sentence-ending punctuation: '.', '!' and '?'.
SentenceEnd == {46, 33, 63}

\* The prefixes of a text that end with sentence-ending punctuation, by length.
EndedPrefixes(text) == {n \in 1..Len(text) : text[n] \in SentenceEnd}

\* C21: remove_incomplete_last_sentence returns the trimmed text when it
\* ends with '.', '!' or '?', and otherwise the longest prefix of the trimmed
\* text that ends with '.', '!' or '?', the empty text when there is none.
C21_RemovesOnlyLastSentence ==
    tx_pc = "trimmed"
        => LET trimmed == trim_end(tx_text) IN
           IF EndedPrefixes(trimmed) = {} THEN tx_out = <<>>
           ELSE tx_out = SubSeq(trimmed, 1,
                    CHOOSE n \in EndedPrefixes(trimmed) :
                        \A m \in EndedPrefixes(trimmed) : m <= n)

(***************************************************************************)
(* Claims about the order of a tick and the camera (checked under Spec)    *)
(***************************************************************************)
\* The scene of the k-th frame: the ramp has moved by k - 1 camera steps.
SceneOfFrame(k) ==
    StaticPixels \o
    [i \in 1..ScrollPixels |-> RampColor((k - 1) * sprites.speed + i - 1)]

\* C22: a tick repaints, then advances the camera, then encodes.  While
\* frames are captured, after the tick of frame k (k = frame_count) the frame
\* buffer is the scene at camera.x = (k - 1) * step, the camera stands at
\* k * step, and when the frame was written its index buffer is the encoding
\* of that frame buffer, pixel by pixel.
C22_FrameKIsSceneAtKMinusOne ==
    (frame_count >= 1 /\ finalize_calls = 0)
        => /\ window_buffer = SceneOfFrame(frame_count)
           /\ camera_x = frame_count * CAMERA_STEP
           /\ (gif_frames = frame_count /\ color_to_index_map.some)
                 => /\ Len(gif_buffer) = Len(window_buffer)
                    /\ \A i \in 1..Len(window_buffer) :
                          /\ window_buffer[i] \in DOMAIN color_to_index_map.v
                          /\ gif_buffer[i] = color_to_index_map.v[window_buffer[i]]

\* The second frame of a moving scene was written.
C22_Witness ==
    /\ frame_count = 2
    /\ gif_frames = 2
    /\ sprites.speed = 1
    /\ color_to_index_map.some
    /\ window_buffer = SceneOfFrame(2)
    /\ window_buffer # SceneOfFrame(1)

\* C23: every tick advances camera.x by CAMERA_X_INCREMENT, so after n
\* ticks (the encoding ones and the finalizing one) camera.x is
\* CAMERA_X_INCREMENT * n.
C23_CameraAdvancesByIncrement ==
    pc # "off" => camera_x = CAMERA_X_INCREMENT * (frame_count + finalize_calls)

(***************************************************************************)
(* Claims about the stamps of a tick (checked under SpecScene)             *)
(***************************************************************************)
\* The camera position the last tick composited at.
CameraOfLastTick == sc_camera_x - CAMERA_STEP

\* C24 as claimed: a tick stamps the first layer once, at (0, 0), before any
\* other stamp, and then only the remaining three layers, once each, at
\* their parallax offsets.
C24_FirstLayerStampedOnce ==
    stamped # <<>>
        => /\ stamped[1] = [x |-> 0, y |-> 0, layer |-> 1]
           /\ Len(stamped) = LAYER_COUNT
           /\ \A s \in 2..Len(stamped) : stamped[s].layer = s

\* C24 as amended: a tick stamps the first layer at (0, 0) before any other
\* stamp, and then all four layers in order, each at
\* (window_width - offset_x, offset_y) with the divisors 16, 10, 6, 1: the
\* first layer is stamped twice, the second time at the offset of
\* floor(camera.x / 16), which depends on the camera.
C24_FirstLayerStampedTwice ==
    stamped # <<>>
        => /\ stamped[1] = [x |-> 0, y |-> 0, layer |-> 1]
           /\ Len(stamped) = LAYER_COUNT + 1
           /\ \A i \in 1..LAYER_COUNT :
                 /\ stamped[i + 1].layer = i
                 /\ stamped[i + 1].y = 0
                 /\ stamped[i + 1].x
                      = CanvasWidth
                          - ((CameraOfLastTick \div LAYER_DIVISORS[i]) % CanvasWidth)

\* A tick stamped the first layer a second time, at a position shifted by
\* the camera.
C24_Witness ==
    /\ Len(stamped) = LAYER_COUNT + 1
    /\ stamped[2].layer = 1
    /\ stamped[2].x < CanvasWidth
    /\ CameraOfLastTick >= 16

(***************************************************************************)
(* Claims about the stamp position of a layer (checked under SpecText)     *)
(***************************************************************************)
\* C25: for every camera.x >= 0 and every layer divisor, offset_x lies in
\* [0, layer_width) and is floor(camera.x / divisor) mod layer_width; the
\* stamp position canvas_width - offset_x, saturated, lies in
\* [0, canvas_width]; and for a camera.x below layer_width no smaller divisor
\* gives a smaller offset.
C25_OffsetAndStampInRange ==
    tx_pc = "stamped"
        => /\ tx_stamp.offset_x \in 0..(tx_view.texture_width - 1)
           /\ tx_stamp.offset_x
                = (tx_view.camera_x \div tx_view.divisor) % tx_view.texture_width
           /\ tx_stamp.x \in 0..tx_view.window_width
           /\ tx_stamp.x + tx_stamp.offset_x >= tx_view.window_width
           /\ tx_view.camera_x < tx_view.texture_width
                 => \A i \in 1..LAYER_COUNT :
                       LAYER_DIVISORS[i] < tx_view.divisor
                           => (tx_view.camera_x \div LAYER_DIVISORS[i])
                                  % tx_view.texture_width >= tx_stamp.offset_x

\* The offset wrapped around the layer width and passed the canvas width, so
\* that the subtraction saturated.
C25_Witness ==
    /\ tx_pc = "stamped"
    /\ tx_view.camera_x \div tx_view.divisor >= tx_view.texture_width
    /\ tx_stamp.offset_x > tx_view.window_width
    /\ tx_stamp.x = 0

(***************************************************************************)
(* Claims about the pixel-to-index map (checked under Spec)                *)
(***************************************************************************)
\* C26: once a packed color has an index in the pixel-to-index map no step
\* removes the color or changes its index, and every pixel of a written
\* frame carries the index the map holds for its color, so that equal colors
\* get equal indices in every frame.
C26_IndexNeverChanges ==
    /\ []((color_to_index_map.some /\ gif_frames = frame_count /\ frame_count >= 1
              /\ finalize_calls = 0)
            => \A i \in 1..Len(window_buffer) :
                  /\ window_buffer[i] \in DOMAIN color_to_index_map.v
                  /\ gif_buffer[i] = color_to_index_map.v[window_buffer[i]])
    /\ [][color_to_index_map.some
            => /\ color_to_index_map'.some
               /\ \A p \in DOMAIN color_to_index_map.v :
                     /\ p \in DOMAIN color_to_index_map'.v
                     /\ color_to_index_map'.v[p] = color_to_index_map.v[p]]_vars

\* Two frames of a moving scene were written and the map holds a color that
\* is not in the frame buffer any more, beside the colors of the frame.
C26_Witness ==
    /\ color_to_index_map.some
    /\ gif_frames >= 2
    /\ sprites.speed >= 1
    /\ \E p \in DOMAIN color_to_index_map.v : p \notin Range(window_buffer)
    /\ \A i \in 1..Len(window_buffer) : window_buffer[i] \in DOMAIN color_to_index_map.v

(***************************************************************************)
(* Claims about process_frame (checked under Spec)                         *)
(***************************************************************************)
\* C27: a tick that encodes a frame raises frame_count by exactly one and
\* leaves the palette bytes as they were; the frame buffer after the tick is
\* the scene the compositor painted and the camera stands one step further,
\* so that process_frame changed neither; and every frame written carries
\* the palette bytes of the run (none without a palette).
C27_EncodeReadsOnly ==
    /\ [](gif_frames >= 1
            => gif_palette = IF color_map.some THEN color_map.v ELSE <<>>)
    /\ [][frame_count' # frame_count
            => /\ frame_count' = frame_count + 1
               /\ color_map' = color_map
               /\ camera_x' = camera_x + CAMERA_STEP
               /\ window_buffer'
                    = StaticPixels \o
                      [i \in 1..ScrollPixels |->
                          RampColor((camera_x \div CAMERA_STEP) * sprites.speed + i - 1)]]_vars

\* Two frames were written with the palette bytes extract_palette built, and
\* the frame buffer still holds packed colors that are no palette indices.
C27_Witness ==
    /\ color_map.some
    /\ color_to_index_map.some
    /\ gif_frames = 2
    /\ gif_palette = color_map.v
    /\ gif_palette # <<>>
    /\ \E i \in 1..Len(window_buffer) : window_buffer[i] # gif_buffer[i]

(***************************************************************************)
(* Claims about the passes and the tail of kmeans_clustering (checked      *)
(* under SpecKMeans)                                                       *)
(***************************************************************************)
\* The clusters that hold a pixel in the last assignment.
NonEmptyClusters ==
    {k \in 0..(Len(centroids) - 1) : ClusterCount(assignments, k) > 0}

\* C28: the palette kmeans_clustering returns for a non-empty input lists
\* the final centroids of the clusters that hold at least one pixel, each
\* once, in non-increasing order of the number of pixels assigned to them,
\* and no centroid of a cluster without pixels.
C28_PaletteByFrequency ==
    (km_pc = "done" /\ pixels # <<>>)
        => /\ Len(km_result) = Cardinality(NonEmptyClusters)
           /\ \E ord \in [1..Len(km_result) -> NonEmptyClusters] :
                 /\ \A i, j \in 1..Len(km_result) : i # j => ord[i] # ord[j]
                 /\ \A i, j \in 1..Len(km_result) :
                       i < j => ClusterCount(assignments, ord[i])
                                  >= ClusterCount(assignments, ord[j])
                 /\ \A i \in 1..Len(km_result) : km_result[i] = centroids[ord[i] + 1]

\* A returned palette of two colors from clusters of different sizes, with a
\* third cluster left without pixels.
C28_Witness ==
    /\ km_pc = "done"
    /\ iteration >= 1
    /\ Len(km_result) = 2
    /\ Len(centroids) = 3
    /\ \E k, l \in NonEmptyClusters :
          ClusterCount(assignments, k) > ClusterCount(assignments, l)

\* C29: on a non-empty input kmeans_clustering performs at most
\* max_iterations passes and at least min(max_iterations, 7); every pass
\* completes, leaving each non-empty cluster's centroid at the truncated
\* mean of its pixels (an empty cluster keeps the centroid it had); and the
\* loop stops before the cap only after a pass beyond the 6th in which no
\* pixel changed cluster.
C29_PassesAndMeans ==
    pixels # <<>>
        => /\ iteration <= max_iterations
           /\ km_pc # "panic"
           /\ km_pc = "done" => iteration >= Min2(max_iterations, SETTLE_FLOOR + 2)
           /\ km_pc = "tail" => (~changed /\ iteration > SETTLE_FLOOR + 1)
           /\ (km_pc \in {"loop", "tail", "done"} /\ iteration >= 1)
                 => \A k \in NonEmptyClusters :
                       centroids[k + 1] = ClusterMean(pixels, assignments, k)

(***************************************************************************)
(* Claims about the indices of the canonical mode (checked under Spec)     *)
(***************************************************************************)
\* C30: with a canonical palette of n colors every index held by the
\* pixel-to-index map and every index written into a frame's index buffer is
\* below n, and the map sends the packed value of every palette color to a
\* palette slot that holds this very color.
C30_IndicesWithinPalette ==
    Canonical
        => LET pal == PaletteOf(color_map)
               m == color_to_index_map.v
           IN  /\ Len(pal) \in 1..(U8_MAX + 1)
               /\ \A p \in DOMAIN m : m[p] \in 0..(Len(pal) - 1)
               /\ \A i \in 1..Len(gif_buffer) : gif_buffer[i] \in 0..(Len(pal) - 1)
               /\ \A j \in 1..Len(pal) :
                     /\ packed_color(pal[j]) \in DOMAIN m
                     /\ pal[m[packed_color(pal[j])] + 1] = pal[j]

\* Frames were written with a palette of two colors, the map has taken up
\* colors that are not in the palette, and the last palette slot is in use.
C30_Witness ==
    /\ Canonical
    /\ gif_frames >= 2
    /\ Len(PaletteOf(color_map)) = PaletteK
    /\ \E p \in DOMAIN color_to_index_map.v :
          p \notin {packed_color(c) : c \in Range(PaletteOf(color_map))}
    /\ \E i \in 1..Len(gif_buffer) : gif_buffer[i] = PaletteK - 1

====
